---- MODULE Spec2Model ----
(***************************************************************************)
(* A model of SimpleRecorder (src/simplerecorder.py): the device-list      *)
(* parser, channel inference, the settings loader, the channel-list        *)
(* computation and the start/stop controller of the recorder process.      *)
(*                                                                         *)
(* Text is modelled as a sequence of atoms.  An atom is a one-character    *)
(* string for every character the code inspects (digits, " ", ":", "-",    *)
(* "+", "[", "]", "c", "h", "C", "H") or an opaque chunk of other text     *)
(* (a chunk holds no digit, no ":" and no "-", does not begin or end with  *)
(* white space and does not begin with "ch").                              *)
(***************************************************************************)
EXTENDS Integers, Sequences, FiniteSets, TLC

VARIABLES
    audio_devices,   \* self.audio_devices: sequence of <<index text, name text>>
    gui,             \* the Tk variables and widget values of the window
    pc,              \* where the single UI thread is
    exc,             \* the exception that escaped the most recent handler ("" if none)
    record_process,  \* self.record_process: 0 for None, else the pid of the Popen object
    alive,           \* the pids of the spawned processes that have not exited
    spawned,         \* the number of processes spawned so far
    sent,            \* the signals sent so far, as records [pid, sig]
    cmd,             \* the local cmd of start_recording while it runs, else << >>
    lines,           \* device lister: the stderr lines of the enumeration run
    devices,         \* device lister: the list returned
    parsed           \* device lister: whether the parse has run

vars == <<audio_devices, gui, pc, exc, record_process, alive, spawned, sent, cmd,
          lines, devices, parsed>>

ctlvars == <<audio_devices, gui, pc, exc, record_process, alive, spawned, sent, cmd>>

parsevars == <<lines, devices, parsed>>

(***************************************************************************)
(* Bounds of the model.                                                    *)
(***************************************************************************)
MaxProcs == 2

MaxLines == 4

MaxChan == 4

(***************************************************************************)
(* Text helpers: Python's str.strip, str(int), int(str), str.split.        *)
(***************************************************************************)
DigitSeq == <<"0", "1", "2", "3", "4", "5", "6", "7", "8", "9">>

IsDigit(a) == \E i \in 1..10 : DigitSeq[i] = a

DigitVal(a) == (CHOOSE i \in 1..10 : DigitSeq[i] = a) - 1

IsSpace(a) == a = " "

RECURSIVE LStrip(_)
LStrip(s) == IF s # << >> /\ IsSpace(Head(s)) THEN LStrip(Tail(s)) ELSE s

RECURSIVE RStrip(_)
RStrip(s) ==
    IF s # << >> /\ IsSpace(s[Len(s)]) THEN RStrip(SubSeq(s, 1, Len(s) - 1)) ELSE s

Strip(s) == RStrip(LStrip(s))

RECURSIVE StrOfNat(_)
StrOfNat(n) ==
    IF n < 10 THEN <<DigitSeq[n + 1]>>
    ELSE StrOfNat(n \div 10) \o <<DigitSeq[(n % 10) + 1]>>

StrOfInt(n) == IF n < 0 THEN <<"-">> \o StrOfNat(0 - n) ELSE StrOfNat(n)

AllDigits(s) == s # << >> /\ \A i \in 1..Len(s) : IsDigit(s[i])

RECURSIVE NatOfDigits(_)
NatOfDigits(s) ==
    IF s = << >> THEN 0
    ELSE 10 * NatOfDigits(SubSeq(s, 1, Len(s) - 1)) + DigitVal(s[Len(s)])

\* int(text): white space around, an optional sign, then digits; else ValueError.
PyInt(s) ==
    LET t == Strip(s)
        signed == t # << >> /\ Head(t) \in {"-", "+"}
        d == IF signed THEN Tail(t) ELSE t
    IN  IF AllDigits(d)
        THEN [ok |-> TRUE,
              v |-> IF signed /\ Head(t) = "-" THEN 0 - NatOfDigits(d) ELSE NatOfDigits(d)]
        ELSE [ok |-> FALSE, v |-> 0]

\* The position of the first atom a of s, or 0.
IndexOf(s, a) ==
    IF \E i \in 1..Len(s) : s[i] = a
    THEN CHOOSE i \in 1..Len(s) : s[i] = a /\ \A j \in 1..(i - 1) : s[j] # a
    ELSE 0

\* text.split(sep): all the parts.
RECURSIVE Split(_, _)
Split(s, sep) ==
    LET i == IndexOf(s, sep)
    IN  IF i = 0 THEN <<s>>
        ELSE <<SubSeq(s, 1, i - 1)>> \o Split(SubSeq(s, i + 1, Len(s)), sep)

\* text.split(sep, 1): at most two parts.
SplitOnce(s, sep) ==
    LET i == IndexOf(s, sep)
    IN  IF i = 0 THEN <<s>>
        ELSE <<SubSeq(s, 1, i - 1), SubSeq(s, i + 1, Len(s))>>

(***************************************************************************)
(* Device lister.                                                          *)
(***************************************************************************)
\* The bracketed log prefix "[AVFoundation indev @ 0x...]" of an ffmpeg line.
PFX == "[AVFoundation indev @ 0x7f]"

AUDIO_MARKER == "AVFoundation audio devices:"

VIDEO_MARKER == "AVFoundation video devices:"

Contains(s, a) == \E i \in 1..Len(s) : s[i] = a

\* The end of the run of atoms satisfying the test that starts at position i
\* (i - 1 when the run is empty).
RECURSIVE SpaceRunEnd(_, _)
SpaceRunEnd(s, i) ==
    IF i <= Len(s) /\ IsSpace(s[i]) THEN SpaceRunEnd(s, i + 1) ELSE i - 1

RECURSIVE DigitRunEnd(_, _)
DigitRunEnd(s, i) ==
    IF i <= Len(s) /\ IsDigit(s[i]) THEN DigitRunEnd(s, i + 1) ELSE i - 1

\* audio_dev_regex.match(line):
\*   ^\[AVFoundation [^]]+ @.*\]\s+\[(\d+)\]\s+(.+)$
audio_dev_regex(line) ==
    LET no == [ok |-> FALSE, idx |-> << >>, name |-> << >>]
        s1 == SpaceRunEnd(line, 2)
        d0 == s1 + 2
        d1 == DigitRunEnd(line, d0)
        s2 == SpaceRunEnd(line, d1 + 2)
    IN  IF Len(line) < 1 \/ line[1] # PFX THEN no
        ELSE IF s1 < 2 THEN no
        ELSE IF s1 + 1 > Len(line) \/ line[s1 + 1] # "[" THEN no
        ELSE IF d1 < d0 THEN no
        ELSE IF d1 + 1 > Len(line) \/ line[d1 + 1] # "]" THEN no
        ELSE IF s2 < d1 + 2 THEN no
        ELSE IF s2 + 1 > Len(line) THEN no
        ELSE [ok |-> TRUE,
              idx |-> SubSeq(line, d0, d1),
              name |-> SubSeq(line, s2 + 1, Len(line))]

\* ParseLine without the video marker closing the section.
ParseLineNoVideo(st, raw) ==
    LET line == Strip(raw)
        m == audio_dev_regex(line)
    IN  IF Contains(line, AUDIO_MARKER) THEN [st EXCEPT !.section = TRUE]
        ELSE IF st.section /\ m.ok
             THEN [st EXCEPT !.devices = Append(@, <<m.idx, m.name>>)]
             ELSE st

\* One iteration of the for loop over the lines.
ParseLine(st, raw) ==
    LET line == Strip(raw)
        m == audio_dev_regex(line)
    IN  IF Contains(line, AUDIO_MARKER) THEN [st EXCEPT !.section = TRUE]
        ELSE IF Contains(line, VIDEO_MARKER) THEN [st EXCEPT !.section = FALSE]
        ELSE IF st.section /\ m.ok
             THEN [st EXCEPT !.devices = Append(@, <<m.idx, m.name>>)]
             ELSE st

RECURSIVE ParseLines(_, _)
ParseLines(st, ls) ==
    IF ls = << >> THEN st ELSE ParseLines(ParseLine(st, Head(ls)), Tail(ls))

\* The parse of the stderr lines; run |-> FALSE is subprocess.run raising.
get_avfoundation_audio_devices(run) ==
    IF ~run.ok THEN << >>
    ELSE ParseLines([section |-> FALSE, devices |-> << >>], run.stderr).devices

(***************************************************************************)
(* Channel inference.                                                      *)
(***************************************************************************)
\* str.lower on the atoms the pattern reads.
Lower(a) == IF a = "C" THEN "c" ELSE IF a = "H" THEN "h" ELSE a

\* re.search(r'(\d+)ch', s) matches at position i.
ChMatchAt(s, i) ==
    LET e == DigitRunEnd(s, i)
    IN  /\ e >= i
        /\ e + 2 <= Len(s)
        /\ Lower(s[e + 1]) = "c"
        /\ Lower(s[e + 2]) = "h"

infer_channel_count(device_name) ==
    IF \E i \in 1..Len(device_name) : ChMatchAt(device_name, i)
    THEN LET i == CHOOSE k \in 1..Len(device_name) :
                      /\ ChMatchAt(device_name, k)
                      /\ \A j \in 1..(k - 1) : ~ChMatchAt(device_name, j)
         IN  NatOfDigits(SubSeq(device_name, i, DigitRunEnd(device_name, i)))
    ELSE 2

(***************************************************************************)
(* The window: Tk variables hold text; IntVar.get parses it.               *)
(***************************************************************************)
PLACEHOLDER == << <<"0">>, <<"Default Device (not found by FFmpeg)">> >>

\* The device list of __init__: the parse, or the placeholder when it is empty.
GatherDevices(run) ==
    LET found == get_avfoundation_audio_devices(run)
    IN  IF found = << >> THEN <<PLACEHOLDER>> ELSE found

\* The entries of the device combobox, f"{idx}: {name}".
device_names(devs) == [i \in 1..Len(devs) |-> devs[i][1] \o <<":", " ">> \o devs[i][2]]

\* self.device_combo.get()
device_combo_get(g) == device_names(audio_devices)[g.device_sel]

\* IntVar.get(): the integer the variable's text denotes, or TclError.
IntVarGet(text) == PyInt(text)

\* Variable.set(value) of a JSON value: the text Tcl stores.
VarSet(jv) == jv.v

\* The widget values __init__ sets before the channel lists are computed.
InitialGui ==
    [device_sel |-> 1,
     total |-> << >>,
     stream |-> <<"0">>,
     mode |-> <<"stereo">>,
     mono |-> <<"1">>,
     stereo |-> <<"1", "-", "2">>,
     mono_values |-> << >>,
     stereo_vals |-> << >>,
     mono_state |-> "readonly",
     stereo_state |-> "readonly",
     file_name |-> << >>,
     dest |-> << >>,
     status |-> "Not recording."]

\* The outcome of a piece of code: the window after it and the exception it raised.
Ok(g) == [g |-> g, raised |-> ""]

Raise(g, e) == [g |-> g, raised |-> e]

\* The one element of a singleton set; {f(v) : v \in {e}} evaluates e once.
The(S) == CHOOSE x \in S : TRUE

log_message(g, message) == [g EXCEPT !.status = message]

InSeq(x, s) == \E i \in 1..Len(s) : s[i] = x

StereoPair(i) == StrOfInt(i) \o <<"-">> \o StrOfInt(i + 1)

\* for i in range(1, total, 2): if i + 1 <= total: append f"{i}-{i+1}"
StereoVals(total) ==
    LET starts == {i \in 1..(total - 1) : i % 2 = 1 /\ i + 1 <= total}
    IN  [k \in 1..Cardinality(starts) |-> StereoPair(2 * k - 1)]

ClampMonoNever(g, cur, mono_values) == g

\* if self.mono_channel_var.get() not in mono_values: set the first value, or 1
ClampMono(g, cur, mono_values) ==
    IF ~InSeq(cur, mono_values)
    THEN [g EXCEPT !.mono = StrOfInt(IF mono_values # << >> THEN mono_values[1] ELSE 1)]
    ELSE g

update_channel_lists(g) ==
    LET chosen_device_text == device_combo_get(g)
        name_part == IF Contains(chosen_device_text, ":")
                     THEN Strip(SplitOnce(chosen_device_text, ":")[2])
                     ELSE Strip(chosen_device_text)
        inferred == infer_channel_count(name_part)
        g1 == IF Strip(g.total) = << >>
              THEN [g EXCEPT !.total = StrOfInt(inferred)] ELSE g
        p == PyInt(g1.total)
        total == IF p.ok THEN p.v ELSE inferred
        mono_values == [i \in 1..total |-> i]
        g2 == [g1 EXCEPT !.mono_values = mono_values]
        cur == IntVarGet(g2.mono)
        g3 == ClampMono(g2, cur.v, mono_values)
        sv == StereoVals(total)
        stereo_vals == IF sv = << >> THEN <<StereoPair(1)>> ELSE sv
        g4 == [g3 EXCEPT !.stereo_vals = stereo_vals]
        g5 == IF ~InSeq(g4.stereo, stereo_vals)
              THEN [g4 EXCEPT !.stereo = stereo_vals[1]] ELSE g4
    IN  IF ~cur.ok THEN Raise(g2, "TclError") ELSE Ok(g5)

on_mode_change(g) ==
    IF g.mode = <<"mono">>
    THEN Ok([g EXCEPT !.mono_state = "readonly", !.stereo_state = "disabled"])
    ELSE IF g.mode = <<"stereo">>
    THEN Ok([g EXCEPT !.mono_state = "disabled", !.stereo_state = "readonly"])
    ELSE Ok([g EXCEPT !.mono_state = "disabled", !.stereo_state = "disabled"])

(***************************************************************************)
(* Settings loader.  A settings file is absent, unparseable, or holds a    *)
(* JSON value: an object (obj: a record of the keys it has), a list, a     *)
(* number or a string.  A member value is [t |-> "int" or "str", v |-> its *)
(* text].                                                                  *)
(***************************************************************************)
JInt(n) == [t |-> "int", v |-> StrOfInt(n)]

JStr(s) == [t |-> "str", v |-> s]

NoObj == [none |-> JInt(0)]

\* `key in data`: membership for an object and a list, substring for a string,
\* TypeError for a number.
KeyIn(key, data) ==
    IF data.t = "object" THEN [raised |-> "", in |-> key \in DOMAIN data.obj]
    ELSE IF data.t = "list" THEN [raised |-> "", in |-> FALSE]
    ELSE IF data.t = "string" THEN [raised |-> "", in |-> Contains(data.text, key)]
    ELSE [raised |-> "TypeError", in |-> FALSE]

ApplyDeviceIndex(g, loaded_idx) ==
    LET hits == {i \in 1..Len(audio_devices) :
                    loaded_idx.t = "str" /\ audio_devices[i][1] = loaded_idx.v}
    IN  IF hits = {} THEN g
        ELSE [g EXCEPT !.device_sel = CHOOSE i \in hits : \A j \in hits : i <= j]

ApplyStreamIndex(g, jv) == [g EXCEPT !.stream = VarSet(jv)]

ApplyFileName(g, jv) == [g EXCEPT !.file_name = VarSet(jv)]

ApplyDestinationFolder(g, jv) == [g EXCEPT !.dest = VarSet(jv)]

ApplyRecordMode(g, jv) ==
    IF jv.t = "str" /\ jv.v \in {<<"mono">>, <<"stereo">>, <<"multichannel">>}
    THEN [g EXCEPT !.mode = VarSet(jv)] ELSE g

ApplyMonoChannel(g, jv) == [g EXCEPT !.mono = VarSet(jv)]

ApplyStereoPair(g, jv) == [g EXCEPT !.stereo = VarSet(jv)]

\* The body of `if key in data:` for each key, in the order of the code.
SettingsKeys ==
    <<"device_index", "stream_index", "file_name", "destination_folder",
      "record_mode", "mono_channel", "stereo_pair">>

ApplyKey(g, key, jv) ==
    CASE key = "device_index" -> ApplyDeviceIndex(g, jv)
      [] key = "stream_index" -> ApplyStreamIndex(g, jv)
      [] key = "file_name" -> ApplyFileName(g, jv)
      [] key = "destination_folder" -> ApplyDestinationFolder(g, jv)
      [] key = "record_mode" -> ApplyRecordMode(g, jv)
      [] key = "mono_channel" -> ApplyMonoChannel(g, jv)
      [] key = "stereo_pair" -> ApplyStereoPair(g, jv)

\* One `if key in data: <apply data[key]>`; data[key] on a string raises TypeError.
IfKey(g, data, key) ==
    LET k == KeyIn(key, data)
    IN  IF k.raised # "" THEN Raise(g, k.raised)
        ELSE IF ~k.in THEN Ok(g)
        ELSE IF data.t # "object" THEN Raise(g, "TypeError")
        ELSE Ok(ApplyKey(g, key, data.obj[key]))

\* The ifs one after the other, until one raises.
RECURSIVE LoadKeys(_, _, _)
LoadKeys(r, data, keys) ==
    IF keys = << >> \/ r.raised # "" THEN r
    ELSE LoadKeys(The({IfKey(v.g, data, Head(keys)) : v \in {r}}), data, Tail(keys))

load_default_settings(g, doc) ==
    IF doc.file = "absent" THEN Ok(g)
    ELSE IF doc.file = "malformed"
    THEN Ok(log_message(g, "Could not load default settings"))
    ELSE LoadKeys(Ok(g), doc, SettingsKeys)

\* The calls that end __init__, in order.
ConstructSteps ==
    <<"update_channel_lists", "on_mode_change", "load_default_settings",
      "update_channel_lists", "on_mode_change">>

ConstructStep(step, g, doc) ==
    CASE step = "update_channel_lists" -> update_channel_lists(g)
      [] step = "on_mode_change" -> on_mode_change(g)
      [] step = "load_default_settings" -> load_default_settings(g, doc)

RECURSIVE RunSteps(_, _, _)
RunSteps(r, steps, doc) ==
    IF steps = << >> \/ r.raised # "" THEN r
    ELSE RunSteps(The({ConstructStep(Head(steps), v.g, doc) : v \in {r}}), Tail(steps), doc)

\* __init__ from the first update_channel_lists to its end.
Construct(doc) == RunSteps(Ok(InitialGui), ConstructSteps, doc)

(***************************************************************************)
(* Recording controller.                                                   *)
(***************************************************************************)
SIGINT == "SIGINT"

StartGuardNone == FALSE

StopGuardNoPoll == record_process # 0

\* self.record_process and self.record_process.poll() is None  (start_recording)
StartGuard == record_process # 0 /\ record_process \in alive

\* self.record_process and self.record_process.poll() is None  (stop_recording)
StopGuard == record_process # 0 /\ record_process \in alive

\* <folder or cwd>/<timestamp>[_<file name>].wav
OutputPath(g) ==
    LET file_name == Strip(g.file_name)
        folder == IF Strip(g.dest) = << >> THEN <<"<cwd>">> ELSE Strip(g.dest)
    IN  folder \o <<"/", "<now>">>
        \o (IF file_name # << >> THEN <<"_">> \o file_name ELSE << >>)
        \o <<".wav">>

\* CmdHead with the overwrite flag ahead of the queue-size hint.
CmdHeadOverwriteFirst(device_index, total_channels, audio_stream_idx) ==
    << <<"ffmpeg">>,
       <<"-y">>,
       <<"-thread_queue_size">>, <<"5", "1", "2">>,
       <<"-f">>, <<"avfoundation">>,
       <<"-i">>, <<":">> \o device_index,
       <<"-ac">>, StrOfInt(total_channels),
       <<"-map">>, <<"0", ":">> \o StrOfInt(audio_stream_idx) \o <<"?">> >>

\* The common head of the argument vector.
CmdHead(device_index, total_channels, audio_stream_idx) ==
    << <<"ffmpeg">>,
       <<"-thread_queue_size">>, <<"5", "1", "2">>,
       <<"-y">>,
       <<"-f">>, <<"avfoundation">>,
       <<"-i">>, <<":">> \o device_index,
       <<"-ac">>, StrOfInt(total_channels),
       <<"-map">>, <<"0", ":">> \o StrOfInt(audio_stream_idx) \o <<"?">> >>

\* MonoTail with the 1-based channel number used as the source channel.
MonoTailOneBased(g) ==
    LET ch == IntVarGet(g.mono).v
    IN  << <<"-af">>, <<"pan=mono|c0=c">> \o StrOfInt(ch), <<"-ac">>, <<"1">>,
           OutputPath(g) >>

MonoTail(g) ==
    LET ch == IntVarGet(g.mono).v - 1
    IN  << <<"-af">>, <<"pan=mono|c0=c">> \o StrOfInt(ch), <<"-ac">>, <<"1">>,
           OutputPath(g) >>

\* The stereo branch: the parsed pair, or the fallback when the parse raises.
StereoTail(g) ==
    LET parts == Split(g.stereo, "-")
        l == PyInt(parts[1])
        r == PyInt(parts[2])
    IN  IF Len(parts) = 2 /\ l.ok /\ r.ok
        THEN << <<"-af">>,
                <<"pan=stereo|c0=c">> \o StrOfInt(l.v - 1) \o <<"|c1=c">>
                    \o StrOfInt(r.v - 1),
                <<"-ac">>, <<"2">>, OutputPath(g) >>
        ELSE <<OutputPath(g)>>

StereoParses(g) ==
    LET parts == Split(g.stereo, "-")
    IN  Len(parts) = 2 /\ PyInt(parts[1]).ok /\ PyInt(parts[2]).ok

\* start_recording from its first line to the Popen call: the window after the
\* log messages, the cmd built, and the exception raised on the way.
BuildCmd(g) ==
    LET device_index == Strip(SplitOnce(device_combo_get(g), ":")[1])
        stream == IntVarGet(g.stream)
        tot == PyInt(g.total)
        g1 == IF tot.ok THEN g ELSE log_message(g, "Error getting total channels")
        total_channels == IF tot.ok THEN tot.v ELSE 2
        head == CmdHead(device_index, total_channels, stream.v)
    IN  IF ~stream.ok THEN [g |-> g, raised |-> "TclError", cmd |-> << >>]
        ELSE IF g.mode = <<"mono">>
        THEN IF ~IntVarGet(g.mono).ok
             THEN [g |-> g1, raised |-> "TclError", cmd |-> << >>]
             ELSE [g |-> log_message(g1, "Recording MONO"), raised |-> "",
                   cmd |-> head \o MonoTail(g)]
        ELSE IF g.mode = <<"stereo">>
        THEN [g |-> log_message(g1, IF StereoParses(g) THEN "Recording STEREO"
                                    ELSE "Stereo fallback"),
              raised |-> "", cmd |-> head \o StereoTail(g)]
        ELSE [g |-> log_message(g1, "Recording MULTICHANNEL"), raised |-> "",
              cmd |-> head \o <<OutputPath(g)>>]

(***************************************************************************)
(* Inputs.                                                                 *)
(***************************************************************************)
DevLine(idx, name) == <<PFX, " ", "[">> \o idx \o <<"]", " ">> \o name

\* The outcomes of the enumeration run the window is built from.
DiagnosticRuns ==
    << [ok |-> FALSE, stderr |-> << >>],
       [ok |-> TRUE,
        stderr |-> << <<PFX, " ", VIDEO_MARKER>>,
                      DevLine(<<"0">>, <<"FaceTime Camera ", "8", "c", "h">>),
                      <<PFX, " ", AUDIO_MARKER>>,
                      DevLine(<<"0">>, <<"BlackHole ", "4", "C", "H">>) >>],
       [ok |-> TRUE,
        stderr |-> << <<PFX, " ", AUDIO_MARKER>>,
                      DevLine(<<"0">>, <<"Mic ", "1", "c", "h">>),
                      DevLine(<<"1">>, <<"Audient EVO", "1", "6">>) >>] >>

Object(o) == [file |-> "ok", t |-> "object", obj |-> o, text |-> << >>]

Scalar(t, text) == [file |-> "ok", t |-> t, obj |-> NoObj, text |-> text]

\* The settings files the window is built from.
SettingsDocs ==
    << [file |-> "absent", t |-> "", obj |-> NoObj, text |-> << >>],
       [file |-> "malformed", t |-> "", obj |-> NoObj, text |-> << >>],
       Object([record_mode |-> JStr(<<"mono">>), mono_channel |-> JInt(3)]),
       Object([record_mode |-> JStr(<<"mono">>), mono_channel |-> JInt(0),
               file_name |-> JStr(<<"take">>),
               destination_folder |-> JStr(<<"/tmp">>)]),
       Object([device_index |-> JStr(<<"1">>), stream_index |-> JInt(1),
               record_mode |-> JStr(<<"multichannel">>),
               stereo_pair |-> JStr(<<"3", "-", "4">>)]),
       Object([record_mode |-> JStr(<<"quad">>), stereo_pair |-> JStr(<<"bad">>),
               mono_channel |-> JStr(<<"2">>)]),
       Object([mono_channel |-> JStr(<<"x">>)]),
       Object([stream_index |-> JStr(<<"x">>)]),
       Scalar("list", << >>),
       Scalar("int", <<"5">>),
       Scalar("string", <<"mono_channel">>) >>

\* What the user may leave in the total-channels field.
TotalTexts == {<< >>, <<" ", "1">>, <<"x">>}

Modes == {<<"mono">>, <<"stereo">>, <<"multichannel">>}

(***************************************************************************)
(* The controller as a state machine.                                      *)
(***************************************************************************)
Init ==
    /\ audio_devices \in {GatherDevices(DiagnosticRuns[i]) : i \in 1..Len(DiagnosticRuns)}
    /\ gui = InitialGui
    /\ pc = "init"
    /\ exc = ""
    /\ record_process = 0
    /\ alive = {}
    /\ spawned = 0
    /\ sent = {}
    /\ cmd = << >>
    /\ lines = << >>
    /\ devices = << >>
    /\ parsed = "no"

procvars == <<record_process, alive, spawned, sent, cmd>>

\* SimpleRecorder(): the constructor, with the settings file it finds.
Startup(doc) ==
    /\ pc = "init"
    /\ \E r \in {Construct(doc)} :
           /\ gui' = r.g
           /\ exc' = r.raised
           /\ pc' = IF r.raised = "" THEN "idle" ELSE "crashed"
    /\ UNCHANGED <<audio_devices, procvars, parsevars>>

\* The number of parameters on_device_changed takes besides self.
on_device_changed_params == 0

\* The number of arguments a bound Tk event callback is called with (the event).
BoundCallArgs == 1

on_device_changed(g) == update_channel_lists(g)

\* The user picks entry i of the device combobox; Tk calls the bound callback.
select_device(i) ==
    /\ pc = "idle"
    /\ LET g == [gui EXCEPT !.device_sel = i]
           r == IF BoundCallArgs = on_device_changed_params
                THEN on_device_changed(g) ELSE Raise(g, "TypeError")
       IN  gui' = r.g /\ exc' = r.raised
    /\ UNCHANGED <<audio_devices, pc, procvars, parsevars>>

\* The user edits the total-channels entry (no callback is bound to it).
edit_total_channels(text) ==
    /\ pc = "idle"
    /\ gui' = [gui EXCEPT !.total = text]
    /\ exc' = ""
    /\ UNCHANGED <<audio_devices, pc, procvars, parsevars>>

\* The user clicks a stream-index radio button.
select_stream_index(n) ==
    /\ pc = "idle"
    /\ gui' = [gui EXCEPT !.stream = StrOfInt(n)]
    /\ exc' = ""
    /\ UNCHANGED <<audio_devices, pc, procvars, parsevars>>

\* The user clicks a mode radio button; its command is on_mode_change.
select_mode(m) ==
    /\ pc = "idle"
    /\ gui' = on_mode_change([gui EXCEPT !.mode = m]).g
    /\ exc' = ""
    /\ UNCHANGED <<audio_devices, pc, procvars, parsevars>>

\* The user picks a value of the mono dropdown (possible unless it is disabled).
select_mono_channel(k) ==
    /\ pc = "idle"
    /\ gui.mono_state = "readonly"
    /\ k \in 1..Len(gui.mono_values)
    /\ gui' = [gui EXCEPT !.mono = StrOfInt(gui.mono_values[k])]
    /\ exc' = ""
    /\ UNCHANGED <<audio_devices, pc, procvars, parsevars>>

\* The user picks a value of the stereo dropdown (possible unless it is disabled).
select_stereo_pair(k) ==
    /\ pc = "idle"
    /\ gui.stereo_state = "readonly"
    /\ k \in 1..Len(gui.stereo_vals)
    /\ gui' = [gui EXCEPT !.stereo = gui.stereo_vals[k]]
    /\ exc' = ""
    /\ UNCHANGED <<audio_devices, pc, procvars, parsevars>>

\* The Record button: start_recording up to the Popen call.
start_recording ==
    /\ pc = "idle"
    /\ IF StartGuard
       THEN /\ gui' = log_message(gui, "Already recording.")
            /\ exc' = ""
            /\ UNCHANGED <<pc, cmd>>
       ELSE LET b == BuildCmd(gui)
            IN  /\ gui' = b.g
                /\ exc' = b.raised
                /\ cmd' = b.cmd
                /\ pc' = IF b.raised = "" THEN "popen" ELSE "idle"
    /\ UNCHANGED <<audio_devices, record_process, alive, spawned, sent, parsevars>>

\* subprocess.Popen(cmd) spawns the recorder and the handle is stored.
popen_ok ==
    /\ pc = "popen"
    /\ spawned < MaxProcs
    /\ spawned' = spawned + 1
    /\ alive' = alive \cup {spawned + 1}
    /\ record_process' = spawned + 1
    /\ cmd' = << >>
    /\ pc' = "idle"
    /\ exc' = ""
    /\ UNCHANGED <<audio_devices, gui, sent, parsevars>>

\* subprocess.Popen(cmd) raises (the tool is not installed): nothing is assigned.
popen_fails ==
    /\ pc = "popen"
    /\ cmd' = << >>
    /\ pc' = "idle"
    /\ exc' = "OSError"
    /\ UNCHANGED <<audio_devices, gui, record_process, alive, spawned, sent, parsevars>>

\* The Stop button: stop_recording up to the blocking wait, or its else branch.
stop_recording ==
    /\ pc = "idle"
    /\ IF StopGuard
       THEN /\ sent' = sent \cup {[pid |-> record_process, sig |-> SIGINT]}
            /\ pc' = "wait"
            /\ gui' = gui
       ELSE /\ gui' = log_message(gui, "Not currently recording.")
            /\ UNCHANGED <<sent, pc>>
    /\ exc' = ""
    /\ UNCHANGED <<audio_devices, record_process, alive, spawned, cmd, parsevars>>

\* stop_recording_wait without the wait.
stop_recording_nowait ==
    /\ pc = "wait"
    /\ record_process' = 0
    /\ gui' = log_message(gui, "Recording stopped.")
    /\ pc' = "idle"
    /\ exc' = ""
    /\ UNCHANGED <<audio_devices, alive, spawned, sent, cmd, parsevars>>

\* record_process.wait() returns once the process has exited; then the handle is
\* cleared and the stop is reported.
stop_recording_wait ==
    /\ pc = "wait"
    /\ record_process \notin alive
    /\ record_process' = 0
    /\ gui' = log_message(gui, "Recording stopped.")
    /\ pc' = "idle"
    /\ exc' = ""
    /\ UNCHANGED <<audio_devices, alive, spawned, sent, cmd, parsevars>>

\* A recorder process exits: on the interrupt, or on its own.
proc_exit(p) ==
    /\ p \in alive
    /\ alive' = alive \ {p}
    /\ UNCHANGED <<audio_devices, gui, pc, exc, record_process, spawned, sent, cmd,
                   parsevars>>

Next ==
    \/ \E i \in 1..Len(SettingsDocs) : Startup(SettingsDocs[i])
    \/ \E i \in 1..Len(audio_devices) : select_device(i)
    \/ \E t \in TotalTexts : edit_total_channels(t)
    \/ \E n \in {0, 1} : select_stream_index(n)
    \/ \E m \in Modes : select_mode(m)
    \/ \E k \in 1..Len(gui.mono_values) : select_mono_channel(k)
    \/ \E k \in 1..Len(gui.stereo_vals) : select_stereo_pair(k)
    \/ start_recording
    \/ popen_ok
    \/ popen_fails
    \/ stop_recording
    \/ stop_recording_wait
    \/ \E p \in alive : proc_exit(p)

Spec == Init /\ [][Next]_vars

\* A recorder that was sent the interrupt exits.
interrupted_exit ==
    \E p \in alive : [pid |-> p, sig |-> SIGINT] \in sent /\ proc_exit(p)

\* The blocking wait returns once the process is gone, and an interrupted
\* recorder finishes its file and exits.
LiveSpec == Spec /\ WF_vars(stop_recording_wait) /\ WF_vars(interrupted_exit)

(***************************************************************************)
(* The device lister as a state machine: a run of the enumeration, then    *)
(* the parse of what it printed.                                           *)
(***************************************************************************)
ParserLines ==
    { <<PFX, " ", AUDIO_MARKER>>,
      <<PFX, " ", VIDEO_MARKER>>,
      DevLine(<<"0">>, <<"BlackHole ", "1", "6", "c", "h">>),
      <<" ">> \o DevLine(<<"1", "2">>, <<"USB Mic">>) \o <<" ">>,
      <<PFX, " ", "Error opening input">>,
      <<"[", "0", "]", " ", "Built-in">> }

ParseInit ==
    /\ lines \in UNION {[1..n -> ParserLines] : n \in 0..MaxLines}
    /\ devices = << >>
    /\ parsed = "no"
    /\ audio_devices = << >>
    /\ gui = InitialGui
    /\ pc = "lister"
    /\ exc = ""
    /\ record_process = 0
    /\ alive = {}
    /\ spawned = 0
    /\ sent = {}
    /\ cmd = << >>

\* get_avfoundation_audio_devices() when the tool ran and printed `lines`.
list_devices ==
    /\ parsed = "no"
    /\ devices' = get_avfoundation_audio_devices([ok |-> TRUE, stderr |-> lines])
    /\ parsed' = "yes"
    /\ UNCHANGED <<lines, ctlvars>>

\* get_avfoundation_audio_devices() when the tool could not be run.
list_devices_fails ==
    /\ parsed = "no"
    /\ devices' = get_avfoundation_audio_devices([ok |-> FALSE, stderr |-> << >>])
    /\ parsed' = "failed"
    /\ UNCHANGED <<lines, ctlvars>>

ParseNext == list_devices \/ list_devices_fails

SpecParse == ParseInit /\ [][ParseNext]_vars

(***************************************************************************)
(* Properties.                                                             *)
(***************************************************************************)
Running == record_process # 0 /\ record_process \in alive

\* C1: a start while the held recorder is still running spawns nothing and
\* leaves the handle alone (the handler ends without reaching Popen), and at
\* every moment at most one spawned recorder is alive.
C1_SingleRecorder ==
    /\ Cardinality(alive) <= 1
    /\ [][Cardinality(alive') <= 1]_vars
    /\ [][(Running /\ start_recording) =>
            /\ pc' = "idle"
            /\ cmd' = << >>
            /\ record_process' = record_process
            /\ spawned' = spawned
            /\ alive' = alive]_vars

C1_Witness ==
    /\ gui.status = "Already recording."
    /\ Running
    /\ spawned = 1

\* C2: a stop with no running recording (no handle, or the handle of a process
\* that has exited) sends no signal, does not wait, raises nothing, keeps the
\* handle as it was and reports "Not currently recording."
C2_StopIdleNoop ==
    [][(~Running /\ stop_recording) =>
            /\ sent' = sent
            /\ pc' = "idle"
            /\ exc' = ""
            /\ record_process' = record_process
            /\ alive' = alive
            /\ gui' = [gui EXCEPT !.status = "Not currently recording."]]_vars

C2_Witness ==
    /\ gui.status = "Not currently recording."
    /\ record_process # 0
    /\ record_process \notin alive
    /\ sent = {}

\* C3: a stop of a running recorder interrupts it (SIGINT and nothing else),
\* then blocks, and only when the process has exited clears the handle and
\* reports "Recording stopped."; and a stop that is waiting returns.
C3_StopSequence ==
    /\ [][\A s \in sent' : s.sig = "SIGINT"]_vars
    /\ [][(Running /\ stop_recording) =>
            /\ pc' = "wait"
            /\ sent' = sent \cup {[pid |-> record_process, sig |-> "SIGINT"]}
            /\ record_process' = record_process
            /\ gui' = gui]_vars
    /\ [][pc = "wait" =>
            /\ record_process' = record_process \/ pc' = "idle"
            /\ pc' = "wait" => gui' = gui
            /\ pc' = "idle" =>
                 /\ [pid |-> record_process, sig |-> "SIGINT"] \in sent
                 /\ record_process \notin alive'
                 /\ record_process' = 0
                 /\ gui'.status = "Recording stopped."]_vars
    /\ (pc = "wait") ~> (pc = "idle" /\ record_process = 0)

C3_Witness ==
    /\ pc = "idle"
    /\ gui.status = "Recording stopped."
    /\ record_process = 0
    /\ spawned = 1
    /\ alive = {}

\* C4: the cmd handed to Popen routes by mode: mono with channel n has the
\* filter pan=mono|c0=c(n-1) and output count 1; stereo with pair L-R has the
\* filter pan=stereo|c0=c(L-1)|c1=c(R-1) and output count 2; multichannel has
\* no filter and no output count, only the input's total channel count.
C4_RoutingByMode ==
    pc = "popen" =>
        /\ gui.mode = <<"mono">> =>
             /\ \E n \in 1..MaxChan : IntVarGet(gui.mono) = [ok |-> TRUE, v |-> n]
             /\ \A n \in 1..MaxChan :
                    IntVarGet(gui.mono).v = n =>
                        /\ Len(cmd) = 17
                        /\ cmd[13] = <<"-af">>
                        /\ cmd[14] = <<"pan=mono|c0=c">> \o StrOfNat(n - 1)
                        /\ cmd[15] = <<"-ac">>
                        /\ cmd[16] = <<"1">>
        /\ gui.mode = <<"stereo">> =>
             /\ \E L, R \in 1..MaxChan : gui.stereo = StrOfNat(L) \o <<"-">> \o StrOfNat(R)
             /\ \A L, R \in 1..MaxChan :
                    gui.stereo = StrOfNat(L) \o <<"-">> \o StrOfNat(R) =>
                        /\ Len(cmd) = 17
                        /\ cmd[13] = <<"-af">>
                        /\ cmd[14] = <<"pan=stereo|c0=c">> \o StrOfNat(L - 1)
                                        \o <<"|c1=c">> \o StrOfNat(R - 1)
                        /\ cmd[15] = <<"-ac">>
                        /\ cmd[16] = <<"2">>
        /\ gui.mode = <<"multichannel">> =>
             /\ Len(cmd) = 13
             /\ \A i \in 1..Len(cmd) : cmd[i] # <<"-af">>
             /\ {i \in 1..Len(cmd) : cmd[i] = <<"-ac">>} = {9}

C4_Witness ==
    /\ pc = "popen"
    /\ gui.mode = <<"stereo">>
    /\ gui.stereo = <<"3", "-", "4">>
    /\ gui.stream = <<"1">>

\* C5: when the printed lines hold an audio marker, the list returned is the
\* (index, name) pairs of the device lines that follow an audio marker with no
\* video marker in between, in the order of the lines, and nothing else.
IsDeviceLine(l) ==
    /\ ~Contains(l, AUDIO_MARKER)
    /\ ~Contains(l, VIDEO_MARKER)
    /\ audio_dev_regex(Strip(l)).ok

InAudioSection(ls, i) ==
    \E j \in 1..(i - 1) :
        /\ Contains(ls[j], AUDIO_MARKER)
        /\ \A k \in (j + 1)..(i - 1) :
              Contains(ls[k], VIDEO_MARKER) => Contains(ls[k], AUDIO_MARKER)

AudioDeviceLines(ls) == {i \in 1..Len(ls) : IsDeviceLine(ls[i]) /\ InAudioSection(ls, i)}

ExpectedDevices(ls) ==
    LET P == AudioDeviceLines(ls)
        Nth(k) == CHOOSE i \in P : Cardinality({j \in P : j < i}) = k - 1
    IN  [k \in 1..Cardinality(P) |->
            <<audio_dev_regex(Strip(ls[Nth(k)])).idx,
              audio_dev_regex(Strip(ls[Nth(k)])).name>>]

C5_AudioSectionOnly ==
    (parsed = "yes" /\ \E j \in 1..Len(lines) : Contains(lines[j], AUDIO_MARKER))
        => devices = ExpectedDevices(lines)

C5_Witness ==
    /\ parsed = "yes"
    /\ Len(lines) = 4
    /\ Contains(lines[1], VIDEO_MARKER)
    /\ IsDeviceLine(lines[2])
    /\ Contains(lines[3], AUDIO_MARKER)
    /\ devices = << <<<<"1", "2">>, <<"USB Mic">>>> >>

\* C6: when the constructor completes with a settings file whose mono_channel
\* is an integer, the mono selection is that integer if it lies in 1..total for
\* the total-channels field as it then stands, and 1 otherwise.
HasIntMonoChannel(doc) ==
    /\ doc.file = "ok"
    /\ doc.t = "object"
    /\ "mono_channel" \in DOMAIN doc.obj
    /\ doc.obj["mono_channel"].t = "int"

C6_MonoClampedAtStartup ==
    [][\A i \in 1..Len(SettingsDocs) :
          (Startup(SettingsDocs[i]) /\ pc' = "idle" /\ HasIntMonoChannel(SettingsDocs[i])) =>
              LET n == PyInt(SettingsDocs[i].obj["mono_channel"].v).v
                  total == PyInt(gui'.total)
              IN  /\ total.ok
                  /\ IntVarGet(gui'.mono).ok
                  /\ IntVarGet(gui'.mono).v = IF n \in 1..total.v THEN n ELSE 1]_vars

C6_Witness ==
    /\ pc = "idle"
    /\ gui.file_name = <<"take">>
    /\ gui.mode = <<"mono">>
    /\ gui.mono = <<"1">>
    /\ gui.total = <<"4">>

\* C7: no settings file is fatal: the constructor never fails, and no Tcl
\* conversion error escapes a handler because of a value the file supplied.
C7_SettingsNeverFatal == pc # "crashed" /\ exc # "TclError"

\* C8 as stated: after the tool name the overwrite flag comes first and the
\* thread-queue-size hint second.
C8_OverwriteFlagFirst ==
    pc = "popen" =>
        /\ cmd[2] = <<"-y">>
        /\ cmd[3] = <<"-thread_queue_size">>

CmdRest(k) == SubSeq(cmd, k, Len(cmd))

\* C8: after the tool name the cmd handed to Popen holds, in this order, the
\* thread-queue-size hint, the overwrite flag, the avfoundation input driver,
\* the chosen device index as input, the total channel count, the stream
\* mapping ending in "?", then the routing filter and output channel count if
\* the mode has them, and the output path last.
C8_ArgvOrder ==
    pc = "popen" =>
        /\ cmd[1] = <<"ffmpeg">>
        /\ SubSeq(cmd, 2, 3) = << <<"-thread_queue_size">>, <<"5", "1", "2">> >>
        /\ cmd[4] = <<"-y">>
        /\ SubSeq(cmd, 5, 6) = << <<"-f">>, <<"avfoundation">> >>
        /\ cmd[7] = <<"-i">>
        /\ cmd[8] = <<":">> \o audio_devices[gui.device_sel][1]
        /\ cmd[9] = <<"-ac">>
        /\ PyInt(cmd[10]).ok
        /\ PyInt(gui.total).ok => PyInt(cmd[10]).v = PyInt(gui.total).v
        /\ cmd[11] = <<"-map">>
        /\ \E n \in {0, 1} : cmd[12] = <<"0", ":">> \o StrOfNat(n) \o <<"?">>
        /\ \/ CmdRest(13) = <<OutputPath(gui)>>
           \/ /\ Len(cmd) = 17
              /\ cmd[13] = <<"-af">>
              /\ cmd[14][1] \in {"pan=mono|c0=c", "pan=stereo|c0=c"}
              /\ cmd[15] = <<"-ac">>
              /\ cmd[16] \in {<<"1">>, <<"2">>}
              /\ cmd[17] = OutputPath(gui)

C8_Witness ==
    /\ pc = "popen"
    /\ Len(cmd) = 17
    /\ cmd[8] = <<":", "1">>
    /\ cmd[12] = <<"0", ":", "1", "?">>
    /\ cmd[17] = <<"/tmp", "/", "<now>", "_", "take", ".wav">>

\* C9: when the user picks a device the window is left as the bound handler
\* leaves it when run to its end: the lists are recomputed from the new
\* device's name, and the total-channels field takes the inferred count if it
\* was blank and is kept otherwise.
C9_DeviceChangeRecomputes ==
    [][\A i \in 1..Len(audio_devices) :
          select_device(i) =>
              /\ gui' = update_channel_lists([gui EXCEPT !.device_sel = i]).g
              /\ gui'.total = IF Strip(gui.total) = << >>
                              THEN StrOfNat(infer_channel_count(audio_devices[i][2]))
                              ELSE gui.total]_vars

\* The zero-based source channels the filter of the cmd routes.
RoutedChannels ==
    LET f == cmd[14]
        rest == Tail(f)
        k == IndexOf(rest, "|c1=c")
    IN  IF f[1] = "pan=mono|c0=c" THEN {PyInt(rest).v}
        ELSE {PyInt(SubSeq(rest, 1, k - 1)).v, PyInt(SubSeq(rest, k + 1, Len(rest))).v}

\* C10: every cmd handed to Popen with a routing filter routes only source
\* channels c with 0 <= c < the total channel count of the same cmd.
C10_RoutedChannelsInRange ==
    (pc = "popen" /\ Len(cmd) = 17) =>
        \A c \in RoutedChannels : 0 <= c /\ c < PyInt(cmd[10]).v

====
